---- MODULE Spec2Model ----
(***************************************************************************)
(* FP-Growth mining, association-rule generation and rule matching of the  *)
(* smart-store recommender (fp_growth_engine.py, recommender.py).          *)
(*                                                                         *)
(* Fractions (supports, confidences, lifts) are kept as integers in units  *)
(* of 10^-6 ("micro-units"), the precision the engine rounds to; the       *)
(* arithmetic on them is exact rational arithmetic.                        *)
(***************************************************************************)
EXTENDS Integers, Sequences, FiniteSets, TLC

VARIABLES
    pc,                 \* which call of the pipeline has returned
    transactions,       \* fpgrowth: the list of baskets
    min_support,        \* fpgrowth: the float min_support, as [num, den]
    max_len,            \* fpgrowth: max_len
    frequent_itemsets,  \* the list fpgrowth returned / association_rules is given
    metric,             \* association_rules: metric
    min_threshold,      \* association_rules: the float min_threshold, as [num, den]
    hash_order,         \* the iteration order of frozensets in this process
    rules_list,         \* the list association_rules returned
    rules,              \* RecommendationEngine.rules, the rows of the DataFrame
    input_items,        \* recommend: the basket as given
    top_n,              \* recommend: top_n
    min_confidence,     \* recommend: min_confidence, in micro-units
    min_lift,           \* recommend: min_lift, in micro-units
    rec_df,             \* the rows of the DataFrame recommend returned
    rules_pkl,          \* the file models/association_rules.pkl
    trainer,            \* where the training script is in its save step
    cache,              \* st.cache_resource: the engine load_engine has returned
    session,            \* per app session: position, model_loaded, engine, ...
    stack,              \* fpgrowth_mine: the active calls, outermost first
    itemsets,           \* fpgrowth_mine: the (itemset, count) pairs appended so far
    fp_tree,            \* the FPTree under construction
    inserted,           \* the item lists the build loop has gone through so far
    cond_item,          \* conditional_pattern_base: the argument item
    cond_patterns       \* conditional_pattern_base: the list it returned

mineVars == <<transactions, min_support, max_len>>
ruleVars == <<metric, min_threshold, hash_order, rules_list>>
recVars  == <<rules, input_items, top_n, min_confidence, min_lift, rec_df>>

appVars  == <<rules_pkl, trainer, cache, session>>
treeVars == <<fp_tree, inserted, cond_item, cond_patterns>>
stepVars == <<stack, itemsets, treeVars>>

vars == <<pc, mineVars, frequent_itemsets, ruleVars, recVars, appVars, stepVars>>

(***************************************************************************)
(* Strings.  Python compares str values by code point; the characters that *)
(* occur in the modelled product names are listed in code-point order.     *)
(***************************************************************************)
Alphabet == " ABCDEFGHIJKLMNOPQRSTUVWXYZabcdefghijklmnopqrstuvwxyz"

\* the position of every character, computed once
CharCodes == [c \in {SubSeq(Alphabet, i, i) : i \in 1..Len(Alphabet)} |->
                CHOOSE i \in 1..Len(Alphabet) : SubSeq(Alphabet, i, i) = c]

CharCode(c) == CharCodes[c]

RECURSIVE StrLessFrom(_, _, _)
StrLessFrom(a, b, i) ==
    IF i > Len(b) THEN FALSE
    ELSE IF i > Len(a) THEN TRUE
    ELSE LET ca == CharCode(SubSeq(a, i, i))
             cb == CharCode(SubSeq(b, i, i))
         IN  IF ca # cb THEN ca < cb ELSE StrLessFrom(a, b, i + 1)

\* a < b on Python str
StrLess(a, b) == StrLessFrom(a, b, 1)

Items == {"Bread", "Butter", "Milk", "Eggs"}

\* position of each product name in the str order, computed once
ItemRank == [x \in Items |-> Cardinality({y \in Items : StrLess(y, x)})]

(***************************************************************************)
(* FPNode / FPTree.  A tree is a record                                    *)
(*   nodes  : sequence of FPNode records, in creation order; node 0 is the *)
(*            root (item None) and is not stored; link = 0 is None         *)
(*   header : the header dict as the sequence of its keys in insertion     *)
(*            order paired with the first node of the chain                *)
(*   freq   : the dict self.freq                                           *)
(***************************************************************************)
FPNode(item, parent) == [item |-> item, count |-> 0, parent |-> parent, link |-> 0]

RECURSIVE FlattenSeq(_)
FlattenSeq(ss) == IF ss = <<>> THEN <<>> ELSE Head(ss) \o FlattenSeq(Tail(ss))

SeqRange(s) == {s[i] : i \in DOMAIN s}

SelectItems(s, keep) == SelectSeq(s, LAMBDA x : x \in keep)

\* step 1 of _build: freq[item] += 1 for every occurrence in every transaction
CountFreq(txns) ==
    LET all == FlattenSeq(txns)
    IN  [x \in SeqRange(all) |-> Cardinality({i \in DOMAIN all : all[i] = x})]

\* self.freq = {k: v for k, v in freq.items() if v >= min_support}
FilterFreq(freq, min_count) ==
    [x \in {k \in DOMAIN freq : freq[k] >= min_count} |-> freq[x]]

\* mutant: the sort key without the item as tie-breaker, key=-self.freq[x]
KeyLess_NoTieBreak(freq, a, b) == freq[a] > freq[b]

\* key=lambda x: (-self.freq[x], x), compared as Python compares tuples
KeyLess(freq, a, b) ==
    \/ freq[a] > freq[b]
    \/ freq[a] = freq[b] /\ ItemRank[a] < ItemRank[b]

RECURSIVE InsertByKey(_, _, _)
InsertByKey(sorted, x, freq) ==
    IF sorted = <<>> THEN <<x>>
    ELSE IF KeyLess(freq, x, Head(sorted)) THEN <<x>> \o sorted
    ELSE <<Head(sorted)>> \o InsertByKey(Tail(sorted), x, freq)

RECURSIVE SortedByKey(_, _)
\* sorted(items, key=...): stable, ascending in the key
SortedByKey(s, freq) ==
    IF s = <<>> THEN <<>>
    ELSE InsertByKey(SortedByKey(SubSeq(s, 1, Len(s) - 1), freq), s[Len(s)], freq)

\* mutant: an existing child is never found, every item gets a new node
ChildOf_Never(nodes, p, item) == 0

\* node.children[item] of node p (0 when item not in node.children)
ChildOf(nodes, p, item) ==
    LET c == {j \in DOMAIN nodes : nodes[j].parent = p /\ nodes[j].item = item}
    IN  IF c = {} THEN 0 ELSE CHOOSE j \in c : TRUE

HeaderHas(tree, item) == \E i \in DOMAIN tree.header : tree.header[i].item = item

\* self.header.get(item), 0 for None
HeaderGet(tree, item) ==
    IF HeaderHas(tree, item)
    THEN tree.header[CHOOSE i \in DOMAIN tree.header : tree.header[i].item = item].node
    ELSE 0

\* mutant: the new node is linked to the first node of the chain, no walk
ChainLast_NoWalk(nodes, current) == current

RECURSIVE ChainLast(_, _)
\* while current.link: current = current.link
ChainLast(nodes, current) ==
    IF nodes[current].link # 0 THEN ChainLast(nodes, nodes[current].link) ELSE current

RECURSIVE FPTree_insert(_, _, _)
\* FPTree._insert, from position `node` with the remaining `items`
FPTree_insert(tree, node, items) ==
    IF items = <<>> THEN tree
    ELSE
      LET item  == Head(items)
          child == ChildOf(tree.nodes, node, item)
      IN  IF child # 0
          THEN FPTree_insert(
                 [tree EXCEPT !.nodes[child].count = @ + 1], child, Tail(items))
          ELSE
            LET new      == Len(tree.nodes) + 1
                new_node == [FPNode(item, node) EXCEPT !.count = 1]
                added    == Append(tree.nodes, new_node)
                linked   ==
                  IF ~HeaderHas(tree, item)
                  THEN [tree EXCEPT !.nodes = added,
                                    !.header = Append(@, [item |-> item, node |-> new])]
                  ELSE [tree EXCEPT !.nodes =
                          [added EXCEPT ![ChainLast(added, HeaderGet(tree, item))].link = new]]
            IN  FPTree_insert(linked, new, Tail(items))

RECURSIVE BuildLoop(_, _)
\* the second loop of _build over the transactions
BuildLoop(tree, txns) ==
    IF txns = <<>> THEN tree
    ELSE LET filtered ==
               SortedByKey(SelectItems(Head(txns), DOMAIN tree.freq), tree.freq)
         IN  BuildLoop(IF filtered # <<>> THEN FPTree_insert(tree, 0, filtered) ELSE tree,
                       Tail(txns))

\* FPTree.__init__ + _build
FPTree(txns, min_count) ==
    BuildLoop([nodes  |-> <<>>,
               header |-> <<>>,
               freq   |-> FilterFreq(CountFreq(txns), min_count)], txns)

\* len(self.root.children) == 0
is_empty(tree) == ~\E j \in DOMAIN tree.nodes : tree.nodes[j].parent = 0

RECURSIVE PrefixPath_LeafFirst(_, _)
\* mutant: the prefix left in the order of the walk up, prefix[::-1] not applied
PrefixPath_LeafFirst(nodes, parent) ==
    IF parent = 0 THEN <<>>
    ELSE <<nodes[parent].item>> \o PrefixPath_LeafFirst(nodes, nodes[parent].parent)

RECURSIVE PrefixPath(_, _)
\* the walk up the parents, already reversed into root-to-node order
PrefixPath(nodes, parent) ==
    IF parent = 0 THEN <<>>
    ELSE Append(PrefixPath(nodes, nodes[parent].parent), nodes[parent].item)

RECURSIVE PatternsFrom(_, _)
PatternsFrom(nodes, node) ==
    IF node = 0 THEN <<>>
    ELSE LET prefix == PrefixPath(nodes, nodes[node].parent)
             rest   == PatternsFrom(nodes, nodes[node].link)
         IN  IF prefix # <<>>
             THEN <<[pattern |-> prefix, count |-> nodes[node].count]>> \o rest
             ELSE rest

conditional_pattern_base(tree, item) == PatternsFrom(tree.nodes, HeaderGet(tree, item))

\* mutant: the support read from the first node of the chain only
ChainSum_FirstNodeOnly(nodes, n) == IF n = 0 THEN 0 ELSE nodes[n].count

RECURSIVE ChainSum(_, _)
\* support += n.count along the header chain
ChainSum(nodes, n) ==
    IF n = 0 THEN 0 ELSE nodes[n].count + ChainSum(nodes, nodes[n].link)

\* tree.freq.get(item, 0)
FreqGet(freq, item) == IF item \in DOMAIN freq THEN freq[item] ELSE 0

RECURSIVE InsertByFreq(_, _, _)
InsertByFreq(sorted, h, freq) ==
    IF sorted = <<>> THEN <<h>>
    ELSE IF FreqGet(freq, h.item) < FreqGet(freq, Head(sorted).item) THEN <<h>> \o sorted
    ELSE <<Head(sorted)>> \o InsertByFreq(Tail(sorted), h, freq)

RECURSIVE SortedHeader(_, _)
\* sorted(tree.header.items(), key=lambda x: tree.freq.get(x[0], 0)): stable
SortedHeader(header, freq) ==
    IF header = <<>> THEN <<>>
    ELSE InsertByFreq(SortedHeader(SubSeq(header, 1, Len(header) - 1), freq),
                      header[Len(header)], freq)

RECURSIVE Repeat(_, _)
\* [pattern] * count
Repeat(x, count) == IF count <= 0 THEN <<>> ELSE <<x>> \o Repeat(x, count - 1)

RECURSIVE CondTransactions(_)
CondTransactions(patterns) ==
    IF patterns = <<>> THEN <<>>
    ELSE Repeat(Head(patterns).pattern, Head(patterns).count)
           \o CondTransactions(Tail(patterns))

RECURSIVE fpgrowth_mine(_, _, _)
RECURSIVE MineLoop(_, _, _, _)
\* the for loop of fpgrowth_mine over the remaining header entries `todo`
MineLoop(tree, min_count, prefix, todo) ==
    IF todo = <<>> THEN <<>>
    ELSE
      LET item        == Head(todo).item
          new_itemset == prefix \cup {item}
          support     == ChainSum(tree.nodes, Head(todo).node)
          rest        == MineLoop(tree, min_count, prefix, Tail(todo))
      IN  IF support < min_count THEN rest
          ELSE
            LET cond_transactions ==
                  CondTransactions(conditional_pattern_base(tree, item))
                cond_tree == FPTree(cond_transactions, min_count)
                sub == IF cond_transactions # <<>> /\ ~is_empty(cond_tree)
                       THEN fpgrowth_mine(cond_tree, min_count, new_itemset)
                       ELSE <<>>
            IN  <<[itemset |-> new_itemset, count |-> support]>> \o sub \o rest

fpgrowth_mine(tree, min_count, prefix) ==
    MineLoop(tree, min_count, prefix, SortedHeader(tree.header, tree.freq))

(***************************************************************************)
(* Numbers.  A float parameter is a record [num, den] (den > 0) standing   *)
(* for num/den; a stored fraction is an integer number of micro-units.     *)
(***************************************************************************)
Micro == 1000000

Max(a, b) == IF a >= b THEN a ELSE b
Min(a, b) == IF a <= b THEN a ELSE b

\* int(x) on the float num/den: truncation towards zero
IntTrunc(num, den) == IF num >= 0 THEN num \div den ELSE -((-num) \div den)

\* num/den (num >= 0, den > 0) rounded to the nearest integer, ties to even
RoundHalfEven(num, den) ==
    LET q == num \div den
        r == num % den
    IN  IF 2 * r < den THEN q
        ELSE IF 2 * r > den THEN q + 1
        ELSE IF q % 2 = 0 THEN q ELSE q + 1

\* round(count / n, 6), in micro-units
RoundSupport(count, n) == RoundHalfEven(count * Micro, n)

\* mutant: itemsets of exactly max_len items are dropped too
FilterLen_Below(raw, n, maxlen) ==
    LET kept == SelectSeq(raw, LAMBDA e : Cardinality(e.itemset) < maxlen)
    IN  [i \in DOMAIN kept |->
           [support |-> RoundSupport(kept[i].count, n), itemsets |-> kept[i].itemset]]

\* mutant: only the itemsets of exactly max_len items are kept
FilterLen_Exactly(raw, n, maxlen) ==
    LET kept == SelectSeq(raw, LAMBDA e : Cardinality(e.itemset) = maxlen)
    IN  [i \in DOMAIN kept |->
           [support |-> RoundSupport(kept[i].count, n), itemsets |-> kept[i].itemset]]

\* the result loop of fpgrowth over raw
FilterLen(raw, n, maxlen) ==
    LET kept == SelectSeq(raw, LAMBDA e : Cardinality(e.itemset) <= maxlen)
    IN  [i \in DOMAIN kept |->
           [support |-> RoundSupport(kept[i].count, n), itemsets |-> kept[i].itemset]]

\* min_count = max(1, int(min_support * n))
MinCount(minsup, n) == Max(1, IntTrunc(minsup.num * n, minsup.den))

fpgrowth(txns, minsup, maxlen) ==
    LET n         == Len(txns)
        min_count == MinCount(minsup, n)
        tree      == FPTree(txns, min_count)
        raw       == fpgrowth_mine(tree, min_count, {})
    IN  FilterLen(raw, n, maxlen)

(***************************************************************************)
(* Float arithmetic of association_rules.  Supports are the micro-unit     *)
(* integers the lookup holds; confidence and lift are kept unrounded as    *)
(* exact ratios num/den of wide integers [hi, lo] = hi * 10^6 + lo, so     *)
(* that every product stays below 2^31.  Where the exact value lies        *)
(* half-way between two 6-decimal numbers the float's representation       *)
(* error decides what round() returns: `tie` ("down" or "up") is that      *)
(* outcome.                                                                *)
(***************************************************************************)
WideOf(x) == [hi |-> x \div Micro, lo |-> x % Micro]

\* a * b for 0 <= a, b < 4 * 10^7
WideMul(a, b) ==
    LET a1    == a \div 1000
        a0    == a % 1000
        b1    == b \div 1000
        b0    == b % 1000
        cross == a1 * b0 + a0 * b1
        low   == (cross % 1000) * 1000 + a0 * b0
    IN  [hi |-> a1 * b1 + cross \div 1000 + low \div Micro, lo |-> low % Micro]

\* x * k for a small k
WideScale(x, k) == [hi |-> x.hi * k + (x.lo * k) \div Micro, lo |-> (x.lo * k) % Micro]

WideLeq(x, y) == x.hi < y.hi \/ (x.hi = y.hi /\ x.lo <= y.lo)

\* x - y for y <= x
WideSub(x, y) ==
    IF x.lo >= y.lo THEN [hi |-> x.hi - y.hi, lo |-> x.lo - y.lo]
    ELSE [hi |-> x.hi - y.hi - 1, lo |-> x.lo + Micro - y.lo]

RECURSIVE WideDivMod(_, _, _)
\* quotient (added to q) and remainder of r by d, by repeated subtraction
WideDivMod(q, r, d) ==
    IF WideLeq(d, r) THEN WideDivMod(q + 1, WideSub(r, d), d) ELSE [q |-> q, r |-> r]

RECURSIVE WideDigits(_, _, _)
\* k more decimal digits of the quotient qr.q, remainder qr.r, divisor d
WideDigits(qr, d, k) ==
    IF k = 0 THEN qr
    ELSE LET step == WideDivMod(0, WideScale(qr.r, 10), d)
         IN  WideDigits([q |-> qr.q * 10 + step.q, r |-> step.r], d, k - 1)

\* round(x, 6) of the float x = ratio.num / ratio.den, in micro-units
Round6(ratio, tie) ==
    LET qr    == WideDigits(WideDivMod(0, ratio.num, ratio.den), ratio.den, 6)
        twice == WideScale(qr.r, 2)
    IN  IF twice = ratio.den THEN (IF tie = "up" THEN qr.q + 1 ELSE qr.q)
        ELSE IF WideLeq(ratio.den, twice) THEN qr.q + 1
        ELSE qr.q

\* ratio >= thr, for the float thr = thr.num / thr.den
RatioGeq(ratio, thr) ==
    WideLeq(WideScale(ratio.den, thr.num), WideScale(ratio.num, thr.den))

\* confidence = rule_support / ant_support
Confidence(rule_support, ant_support) ==
    [num |-> WideOf(rule_support), den |-> WideOf(ant_support)]

\* lift = confidence / cons_support
Lift(rule_support, ant_support, cons_support) ==
    [num |-> [hi |-> rule_support, lo |-> 0], den |-> WideMul(ant_support, cons_support)]

\* round(rule_support - ant_support * cons_support, 6), in micro-units
Leverage6(rule_support, ant_support, cons_support, tie) ==
    LET prod == WideMul(ant_support, cons_support)
    IN  IF 2 * prod.lo < Micro THEN rule_support - prod.hi
        ELSE IF 2 * prod.lo > Micro THEN rule_support - prod.hi - 1
        ELSE IF tie = "up" THEN rule_support - prod.hi
        ELSE rule_support - prod.hi - 1

(***************************************************************************)
(* Natural numbers of any size, written as sequences of base-10000 digits, *)
(* least significant first.                                                *)
(***************************************************************************)
RECURSIVE BNOf(_)
BNOf(x) == IF x = 0 THEN <<>> ELSE <<x % 10000>> \o BNOf(x \div 10000)

RECURSIVE BNAdd(_, _, _)
BNAdd(a, b, carry) ==
    IF a = <<>> /\ b = <<>> THEN (IF carry = 0 THEN <<>> ELSE <<carry>>)
    ELSE LET a0 == IF a = <<>> THEN 0 ELSE Head(a)
             b0 == IF b = <<>> THEN 0 ELSE Head(b)
             sum == a0 + b0 + carry
         IN  <<sum % 10000>> \o BNAdd(IF a = <<>> THEN <<>> ELSE Tail(a),
                                        IF b = <<>> THEN <<>> ELSE Tail(b),
                                        sum \div 10000)

RECURSIVE BNMulDigit(_, _, _)
BNMulDigit(a, k, carry) ==
    IF a = <<>> THEN (IF carry = 0 THEN <<>> ELSE <<carry>>)
    ELSE LET p == Head(a) * k + carry
         IN  <<p % 10000>> \o BNMulDigit(Tail(a), k, p \div 10000)

RECURSIVE BNMul(_, _)
BNMul(a, b) ==
    IF b = <<>> THEN <<>>
    ELSE BNAdd(BNMulDigit(a, Head(b), 0), <<0>> \o BNMul(a, Tail(b)), 0)

RECURSIVE BNCmp(_, _)
\* -1, 0 or 1 as a < b, a = b or a > b
BNCmp(a, b) ==
    IF a = <<>> /\ b = <<>> THEN 0
    ELSE LET a0 == IF a = <<>> THEN 0 ELSE Head(a)
             b0 == IF b = <<>> THEN 0 ELSE Head(b)
             hi == BNCmp(IF a = <<>> THEN <<>> ELSE Tail(a),
                         IF b = <<>> THEN <<>> ELSE Tail(b))
         IN  IF hi # 0 THEN hi
             ELSE IF a0 < b0 THEN -1 ELSE IF a0 > b0 THEN 1 ELSE 0

BNLeq(a, b) == BNCmp(a, b) <= 0

BNTwice(a) == BNAdd(a, a, 0)

\* |x - y| <= t / 2
BNWithinHalf(x, y, t) ==
    /\ BNLeq(BNTwice(x), BNAdd(BNTwice(y), t, 0))
    /\ BNLeq(BNTwice(y), BNAdd(BNTwice(x), t, 0))

RECURSIVE BNAbove(_, _, _)
\* a power-of-two multiple of hi whose product with d exceeds n
BNAbove(n, d, hi) ==
    IF BNLeq(BNMul(BNOf(hi), d), n) THEN BNAbove(n, d, 2 * hi) ELSE hi

RECURSIVE BNFloorBetween(_, _, _, _)
\* the largest q in lo..hi with q * d <= n
BNFloorBetween(n, d, lo, hi) ==
    IF lo = hi THEN lo
    ELSE LET mid == (lo + hi + 1) \div 2
         IN  IF BNLeq(BNMul(BNOf(mid), d), n) THEN BNFloorBetween(n, d, mid, hi)
             ELSE BNFloorBetween(n, d, lo, mid - 1)

\* n / d rounded to the nearest integer, ties to even
BNRoundDiv(n, d) ==
    LET n2 == BNAdd(BNTwice(n), d, 0)
        d2 == BNTwice(d)
        q  == BNFloorBetween(n2, d2, 0, BNAbove(n2, d2, 1))
    IN  IF BNCmp(BNMul(BNOf(q), d2), n2) = 0 /\ q % 2 = 1 THEN q - 1 ELSE q

\* the sentinel min(conviction, 999.0) caps at, in units of 10^-4
ConvictionCap == 9990000

\* round(min(conviction, 999.0), 4) in units of 10^-4, where conviction is
\* (1 - cons_support) / (1 - confidence + 1e-10) if confidence < 1 else inf
Conviction4(rule_support, ant_support, cons_support) ==
    IF rule_support >= ant_support THEN ConvictionCap
    ELSE LET gap == IF cons_support <= Micro THEN Micro - cons_support
                    ELSE cons_support - Micro
             \* |conviction| * 10^4 = n / d
             n == BNMul(BNMul(BNOf(gap), BNOf(ant_support)), BNOf(100000000))
             d == BNAdd(BNMul(BNOf(ant_support - rule_support),
                              BNMul(BNOf(100000), BNOf(100000))),
                        BNOf(ant_support), 0)
         IN  IF cons_support > Micro THEN 0 - BNRoundDiv(n, d)
             ELSE IF BNLeq(BNMul(BNOf(ConvictionCap), d), n) THEN ConvictionCap
             ELSE BNRoundDiv(n, d)

(***************************************************************************)
(* association_rules.  order is the sequence in which this process         *)
(* iterates the items of a frozenset (it depends on the str hashes).       *)
(***************************************************************************)
\* support_map.get(S, 0): the dict comprehension keeps the last entry of S
SupportGet(fis, S) ==
    LET at == {i \in DOMAIN fis : fis[i].itemsets = S}
    IN  IF at = {} THEN 0 ELSE fis[CHOOSE i \in at : \A j \in at : j <= i].support

RECURSIVE Combinations(_, _)
\* itertools.combinations(seq, size), each combination as a frozenset
Combinations(seq, size) ==
    IF size = 0 THEN << {} >>
    ELSE IF Len(seq) < size THEN <<>>
    ELSE LET with == Combinations(Tail(seq), size - 1)
         IN  [i \in DOMAIN with |-> {Head(seq)} \cup with[i]]
               \o Combinations(Tail(seq), size)

RECURSIVE AntecedentsFrom(_, _)
\* the antecedents of an itemset in the order the two nested loops visit them
AntecedentsFrom(seq, size) ==
    IF size >= Len(seq) THEN <<>>
    ELSE Combinations(seq, size) \o AntecedentsFrom(seq, size + 1)

\* mutant: consequent = itemset, the antecedent not taken out of it
CandidateRule_WholeConsequent(fis, fs, antecedent, metric_name, thr, tie) ==
    LET ant_support  == SupportGet(fis, antecedent)
        cons_support == SupportGet(fis, fs.itemsets)
    IN  IF ant_support = 0 \/ cons_support = 0 THEN <<>>
        ELSE IF RatioGeq(IF metric_name = "confidence"
                         THEN Confidence(fs.support, ant_support)
                         ELSE Lift(fs.support, ant_support, cons_support), thr)
        THEN << [antecedents |-> antecedent,
                 consequents |-> fs.itemsets,
                 support     |-> fs.support,
                 confidence  |-> Round6(Confidence(fs.support, ant_support), tie),
                 lift        |-> Round6(Lift(fs.support, ant_support, cons_support), tie),
                 leverage    |-> Leverage6(fs.support, ant_support, cons_support, tie),
                 conviction  |-> Conviction4(fs.support, ant_support, cons_support)] >>
        ELSE <<>>

\* the body of the innermost loop: the rule appended for this antecedent, if any
CandidateRule(fis, fs, antecedent, metric_name, thr, tie) ==
    LET consequent   == fs.itemsets \ antecedent
        ant_support  == SupportGet(fis, antecedent)
        cons_support == SupportGet(fis, consequent)
        rule_support == fs.support
        confidence   == Confidence(rule_support, ant_support)
        lift         == Lift(rule_support, ant_support, cons_support)
        value        == IF metric_name = "confidence" THEN confidence ELSE lift
    IN  IF ant_support = 0 \/ cons_support = 0 THEN <<>>
        ELSE IF RatioGeq(value, thr)
        THEN << [antecedents |-> antecedent,
                 consequents |-> consequent,
                 support     |-> rule_support,
                 confidence  |-> Round6(confidence, tie),
                 lift        |-> Round6(lift, tie),
                 leverage    |-> Leverage6(rule_support, ant_support, cons_support, tie),
                 conviction  |-> Conviction4(rule_support, ant_support, cons_support)] >>
        ELSE <<>>

\* mutant: a lookup miss gives up the whole itemset, not the one candidate
RulesOfItemset_AbortOnMiss(fis, fs, metric_name, thr, order, tie) ==
    IF Cardinality(fs.itemsets) < 2 THEN <<>>
    ELSE LET ants == AntecedentsFrom(SelectItems(order, fs.itemsets), 1)
         IN  IF \E i \in DOMAIN ants : \/ SupportGet(fis, ants[i]) = 0
                                        \/ SupportGet(fis, fs.itemsets \ ants[i]) = 0
             THEN <<>>
             ELSE FlattenSeq([i \in DOMAIN ants |->
                                CandidateRule(fis, fs, ants[i], metric_name, thr, tie)])

\* the rules one frequent itemset fs contributes
RulesOfItemset(fis, fs, metric_name, thr, order, tie) ==
    IF Cardinality(fs.itemsets) < 2 THEN <<>>
    ELSE LET ants == AntecedentsFrom(SelectItems(order, fs.itemsets), 1)
         IN  FlattenSeq([i \in DOMAIN ants |->
                           CandidateRule(fis, fs, ants[i], metric_name, thr, tie)])

RECURSIVE InsertByLift(_, _)
InsertByLift(sorted, r) ==
    IF sorted = <<>> THEN <<r>>
    ELSE IF r.lift > Head(sorted).lift THEN <<r>> \o sorted
    ELSE <<Head(sorted)>> \o InsertByLift(Tail(sorted), r)

\* mutant: the rules stay in the order the loops appended them
SortedByLiftDesc_AsAppended(rs) == rs

RECURSIVE SortedByLiftDesc(_)
\* rules.sort(key=lambda r: r["lift"], reverse=True): stable
SortedByLiftDesc(rs) ==
    IF rs = <<>> THEN <<>>
    ELSE InsertByLift(SortedByLiftDesc(SubSeq(rs, 1, Len(rs) - 1)), rs[Len(rs)])

association_rules(fis, metric_name, thr, order, tie) ==
    SortedByLiftDesc(
      FlattenSeq([i \in DOMAIN fis |->
                    RulesOfItemset(fis, fis[i], metric_name, thr, order, tie)]))

(***************************************************************************)
(* Inputs of the mining specification.                                     *)
(***************************************************************************)
\* bound: the size of an enumerated transaction list, counted as its number
\* of item occurrences plus its number of empty baskets
MaxOccur == 4

MineItems == {"Bread", "Butter", "Milk"}

\* every basket (a list of products, repeats allowed) with len items
BasketsOfLen(len) == [1..len -> MineItems]

RECURSIVE TransactionLists(_)
\* every list of baskets of size at most k
TransactionLists(k) ==
    {<<>>} \cup
    (IF k >= 1 THEN {<< <<>> >> \o rest : rest \in TransactionLists(k - 1)} ELSE {}) \cup
    UNION {{<<b>> \o rest : b \in BasketsOfLen(len), rest \in TransactionLists(k - len)}
             : len \in 1..k}

\* Scenario A of the specification's testable properties
ScenarioA ==
    Repeat(<<"Bread", "Milk", "Butter">>, 10) \o Repeat(<<"Bread", "Eggs">>, 5)

\* larger baskets lists than the enumeration reaches
ScenarioLists ==
    { ScenarioA,
      << <<"Bread", "Butter", "Milk">>, <<"Bread", "Butter">>, <<"Bread", "Milk">>,
         <<"Butter", "Milk">>, <<"Milk">>, <<"Eggs", "Bread">> >>,
      << <<"Milk", "Bread">>, <<"Bread", "Milk", "Bread">>, <<"Eggs">>,
         <<"Butter", "Eggs", "Milk", "Bread">> >>,
      << <<"Milk", "Bread", "Milk", "Butter">>,
         <<"Butter", "Bread", "Bread", "Butter">> >> }

\* 0.02 is the training script's value, 0.3 Scenario A's
MinSupports == {[num |-> 2, den |-> 100], [num |-> 3, den |-> 10],
                [num |-> 1, den |-> 2], [num |-> 7, den |-> 10],
                [num |-> 1, den |-> 1]}

\* values outside the documented range [0, 1]
InvalidMinSupports == {[num |-> -1, den |-> 2], [num |-> 3, den |-> 2]}

\* 4 is the default and the training script's value
MaxLens == {1, 2, 4}

RuleDefaults ==
    /\ metric = "confidence"
    /\ min_threshold = [num |-> 4, den |-> 10]
    /\ hash_order = <<>>
    /\ rules_list = <<>>

RecDefaults ==
    /\ rules = <<>>
    /\ input_items = <<>>
    /\ top_n = 5
    /\ min_confidence = 0
    /\ min_lift = Micro
    /\ rec_df = <<>>

\* no engine object yet
None == [frame |-> FALSE, rows |-> <<>>, frozen_a |-> FALSE, frozen_c |-> FALSE]

Sessions == {1, 2}

AppDefaults ==
    /\ rules_pkl = [kind |-> "missing", table |-> <<>>, frozen |-> TRUE, written |-> 0]
    /\ trainer = "idle"
    /\ cache = None
    /\ session = [s \in Sessions |->
                    [pc |-> "start", model_loaded |-> "unset", self |-> None,
                     engine |-> None, error |-> "", called |-> FALSE,
                     seen |-> None, recs |-> <<>>]]

\* FPTree.__init__ before _build: no node but the root, an empty header
EmptyTree(freq) == [nodes |-> <<>>, header |-> <<>>, freq |-> freq]

TreeDefaults ==
    /\ fp_tree = EmptyTree(<<>>)
    /\ inserted = <<>>
    /\ cond_item = ""
    /\ cond_patterns = <<>>

StepDefaults ==
    /\ stack = <<>>
    /\ itemsets = <<>>
    /\ TreeDefaults

Init ==
    /\ pc = "start"
    /\ \/ /\ transactions \in TransactionLists(MaxOccur)
          /\ min_support \in MinSupports \ {[num |-> 3, den |-> 10]}
       \/ /\ transactions \in ScenarioLists
          /\ min_support \in MinSupports \cup InvalidMinSupports
    /\ max_len \in MaxLens
    /\ frequent_itemsets = <<>>
    /\ RuleDefaults
    /\ RecDefaults
    /\ AppDefaults
    /\ StepDefaults

\* fpgrowth(baskets, min_support, max_len) is called and returns
Fpgrowth ==
    /\ pc = "start"
    /\ frequent_itemsets' = fpgrowth(transactions, min_support, max_len)
    /\ pc' = "mined"
    /\ UNCHANGED <<mineVars, ruleVars, recVars, appVars, stepVars>>

Next == Fpgrowth

Spec == Init /\ [][Next]_vars

(***************************************************************************)
(* The rule-generation specification: association_rules applied to every   *)
(* list fpgrowth returns on the inputs above.                              *)
(***************************************************************************)
MinedOutputs ==
    {fpgrowth(t, ms, ml) : t \in TransactionLists(MaxOccur),
                           ms \in MinSupports \ {[num |-> 3, den |-> 10]},
                           ml \in MaxLens}
    \cup {fpgrowth(t, ms, ml) : t \in ScenarioLists, ms \in MinSupports, ml \in MaxLens}

\* a list of itemsets with the entry at position k left out
Without(fis, k) == SubSeq(fis, 1, k - 1) \o SubSeq(fis, k + 1, Len(fis))

\* itemset lists that lack an entry: the caller filtered or built them itself
IncompleteLists ==
    UNION {{Without(fis, k) : k \in DOMAIN fis}
             : fis \in {fpgrowth(t, [num |-> 2, den |-> 100], 4) : t \in ScenarioLists}}

Metrics == {"confidence", "lift"}

\* a metric name the docstring does not list
InvalidMetrics == {"leverage"}

\* 0.4 is the default and the training script's value
Thresholds == {[num |-> 4, den |-> 10], [num |-> 1, den |-> 2],
               [num |-> 1, den |-> 1], [num |-> 12, den |-> 10]}

\* iteration orders of the items of a frozenset
HashOrders == {<<"Bread", "Butter", "Eggs", "Milk">>,
               <<"Milk", "Eggs", "Butter", "Bread">>,
               <<"Butter", "Milk", "Bread", "Eggs">>}

Ties == {"down", "up"}

InitRules ==
    /\ pc = "mined"
    /\ transactions = <<>>
    /\ min_support = [num |-> 2, den |-> 100]
    /\ max_len = 4
    /\ \/ frequent_itemsets \in MinedOutputs
       \/ frequent_itemsets \in IncompleteLists
    /\ RuleDefaults
    /\ RecDefaults
    /\ AppDefaults
    /\ StepDefaults

\* association_rules(frequent_itemsets, metric, min_threshold) is called and returns
AssociationRules ==
    /\ pc = "mined"
    /\ \E m \in Metrics \cup InvalidMetrics, thr \in Thresholds,
          order \in HashOrders, tie \in Ties :
          /\ metric' = m
          /\ min_threshold' = thr
          /\ hash_order' = order
          /\ rules_list' = association_rules(frequent_itemsets, m, thr, order, tie)
    /\ pc' = "ruled"
    /\ UNCHANGED <<mineVars, frequent_itemsets, recVars, appVars, stepVars>>

NextRules == AssociationRules

SpecRules == InitRules /\ [][NextRules]_vars

(***************************************************************************)
(* RecommendationEngine.recommend.  A rule row is a record                 *)
(* [antecedents, consequents, support, confidence, lift], the numbers in   *)
(* micro-units; a result row is [product, confidence, lift, support,       *)
(* based_on].                                                              *)
(***************************************************************************)
IsLetter(c) == CharCode(c) >= 2

Upper(c) == IF CharCode(c) >= 28 THEN SubSeq(Alphabet, CharCode(c) - 26, CharCode(c) - 26) ELSE c

Lower(c) == IF CharCode(c) >= 2 /\ CharCode(c) <= 27
            THEN SubSeq(Alphabet, CharCode(c) + 26, CharCode(c) + 26) ELSE c

RECURSIVE Strip(_)
\* str.strip(): leading and trailing blanks removed
Strip(s) ==
    IF Len(s) = 0 THEN s
    ELSE IF SubSeq(s, 1, 1) = " " THEN Strip(SubSeq(s, 2, Len(s)))
    ELSE IF SubSeq(s, Len(s), Len(s)) = " " THEN Strip(SubSeq(s, 1, Len(s) - 1))
    ELSE s

RECURSIVE TitleFrom(_, _, _)
TitleFrom(s, i, prev_cased) ==
    IF i > Len(s) THEN ""
    ELSE LET c == SubSeq(s, i, i)
         IN  (IF ~IsLetter(c) THEN c ELSE IF prev_cased THEN Lower(c) ELSE Upper(c))
               \o TitleFrom(s, i + 1, IsLetter(c))

\* str.title(): every word starts upper-case, the rest of it is lower-case
Title(s) == TitleFrom(s, 1, FALSE)

\* mutant: the basket names are used as typed
Normalise_AsTyped(i) == i

\* i.strip().title()
Normalise(i) == Title(Strip(i))

\* frozenset([i.strip().title() for i in input_items])
InputSet(items) == {Normalise(items[k]) : k \in DOMAIN items}

\* round(x, 4) of a non-negative x in micro-units
Round4(x) == RoundHalfEven(x, 100) * 100

RECURSIVE SortedStrs(_)
\* sorted(S) for a set of str
SortedStrs(S) ==
    IF S = {} THEN <<>>
    ELSE LET least == CHOOSE x \in S : \A y \in S \ {x} : StrLess(x, y)
         IN  <<least>> \o SortedStrs(S \ {least})

RECURSIVE Join(_, _)
\* sep.join(seq)
Join(seq, sep) ==
    IF seq = <<>> THEN ""
    ELSE IF Len(seq) = 1 THEN seq[1]
    ELSE seq[1] \o sep \o Join(Tail(seq), sep)

\* the rows one rule appends to results
RowsOfRule(rule, input_set, min_conf, min_l, order) ==
    IF ~(rule.antecedents \subseteq input_set) THEN <<>>
    ELSE IF rule.confidence < min_conf \/ rule.lift < min_l THEN <<>>
    ELSE LET products == SelectSeq(SelectItems(order, rule.consequents),
                                   LAMBDA product : product \notin input_set)
         IN  [k \in DOMAIN products |->
                [product    |-> products[k],
                 confidence |-> Round4(rule.confidence),
                 lift       |-> Round4(rule.lift),
                 support    |-> Round4(rule.support),
                 based_on   |-> Join(SortedStrs(rule.antecedents), ", ")]]

\* results after the loop over self.rules
Results(rule_rows, input_set, min_conf, min_l, order) ==
    FlattenSeq([k \in DOMAIN rule_rows |->
                  RowsOfRule(rule_rows[k], input_set, min_conf, min_l, order)])

RECURSIVE SortedFrom(_, _)
SortedFrom(rows, idx) ==
    IF idx = {} THEN { <<>> }
    ELSE LET top == {i \in idx : \A j \in idx : rows[j].lift <= rows[i].lift}
         IN  UNION {{<<rows[i]>> \o t : t \in SortedFrom(rows, idx \ {i})} : i \in top}

\* sort_values("lift", ascending=False): the default sort kind is not stable,
\* so rows of equal lift come out in any order
SortValuesLift(rows) == SortedFrom(rows, DOMAIN rows)

RECURSIVE DropDuplicates_KeepLast(_)
\* mutant: the last row of every product is kept
DropDuplicates_KeepLast(rows) ==
    IF rows = <<>> THEN <<>>
    ELSE LET rest == DropDuplicates_KeepLast(Tail(rows))
         IN  IF \E k \in DOMAIN rest : rest[k].product = Head(rows).product
             THEN rest ELSE <<Head(rows)>> \o rest

RECURSIVE DropDuplicates(_)
\* drop_duplicates(subset=["product"]): the first row of every product is kept
DropDuplicates(rows) ==
    IF rows = <<>> THEN <<>>
    ELSE LET init == DropDuplicates(SubSeq(rows, 1, Len(rows) - 1))
             last == rows[Len(rows)]
         IN  IF \E k \in DOMAIN init : init[k].product = last.product
             THEN init ELSE Append(init, last)

\* DataFrame.head(n): the first n rows, or all but the last -n when n < 0
DfHead(rows, n) ==
    IF n >= 0 THEN SubSeq(rows, 1, Min(n, Len(rows)))
    ELSE SubSeq(rows, 1, Max(0, Len(rows) + n))

\* mutant: truncated before the duplicates are dropped
RecDf_TruncateFirst(results, n) ==
    {DropDuplicates(DfHead(sorted, n)) : sorted \in SortValuesLift(results)}

\* the frames sort_values / drop_duplicates / head / reset_index can yield
RecDf(results, n) ==
    {DfHead(DropDuplicates(sorted), n) : sorted \in SortValuesLift(results)}

\* what a call yields: the rows of the frame it returns, or the exception it raises
Returns(rows) == [raised |-> "", rows |-> rows]

Raises(exception) == [raised |-> exception, rows |-> <<>>]

\* pd.DataFrame(results) followed by the sort / drop_duplicates / head chain:
\* a frame built from no rows has no "lift" column and sort_values raises
RecDfOutcomes(results, n) ==
    IF results = <<>> THEN { Raises("KeyError") }
    ELSE {Returns(frame) : frame \in RecDf(results, n)}

\* mutant: the early return for an empty results list is missing
recommend_NoEmptyGuard(rule_rows, items, n, min_conf, min_l, order) ==
    IF Len(rule_rows) = 0 THEN { Returns(<<>>) }
    ELSE RecDfOutcomes(Results(rule_rows, InputSet(items), min_conf, min_l, order), n)

\* the outcomes recommend(input_items, top_n, min_confidence, min_lift) can have
recommend(rule_rows, items, n, min_conf, min_l, order) ==
    IF Len(rule_rows) = 0 THEN { Returns(<<>>) }
    ELSE LET results == Results(rule_rows, InputSet(items), min_conf, min_l, order)
         IN  IF results = <<>> THEN { Returns(<<>>) } ELSE RecDfOutcomes(results, n)

(***************************************************************************)
(* The recommendation specification.  The engine holds a rule table as the *)
(* training script pickles it: metrics rounded to 4 decimals, lift >= 1,   *)
(* confidence >= 0.4, rows in non-increasing order of lift.                *)
(***************************************************************************)
Rule(A, C, s, c, l) ==
    [antecedents |-> A, consequents |-> C, support |-> s, confidence |-> c, lift |-> l]

RulePool ==
    { Rule({"Bread"}, {"Butter"}, 600000, 900000, 1500000),
      Rule({"Bread"}, {"Milk"}, 400000, 600000, 1100000),
      Rule({"Milk"}, {"Butter"}, 500000, 800000, 1200000),
      Rule({"Bread", "Milk"}, {"Butter"}, 300000, 950000, 1800000),
      Rule({"Bread"}, {"Butter", "Milk"}, 300000, 500000, 1500000),
      Rule({"Butter"}, {"Bread"}, 600000, 700000, 1500000),
      Rule({"Butter"}, {"Milk"}, 400000, 650000, 1300000),
      Rule({"Eggs"}, {"Bread"}, 133300, 666700, 1000000) }

\* the largest number of rows of the rule table
MaxRules == 3

RECURSIVE ByLiftDesc(_)
\* the orders in which the training script's sort can leave the rules S
ByLiftDesc(S) ==
    IF S = {} THEN { <<>> }
    ELSE LET top == {r \in S : \A q \in S : q.lift <= r.lift}
         IN  UNION {{<<r>> \o t : t \in ByLiftDesc(S \ {r})} : r \in top}

RuleTables ==
    UNION {ByLiftDesc(S) : S \in {T \in SUBSET RulePool : Cardinality(T) <= MaxRules}}

\* baskets as the caller types them
RawBaskets ==
    { <<>>, <<"Bread">>, <<" bread ">>, <<"bread", "MILK">>, <<"Milk ">>,
      <<"bUTTER">>, <<"Butter", "Bread", "Milk">>, <<"Eggs", "Bread">>,
      <<"Bread", "bread">> }

\* app.py offers top_n 3..10; other callers pass any int
TopNs == {-1, 0, 1, 2, 3, 5}

\* app.py offers 0.00..1.00 in steps of 0.05
MinConfidences == {0, 700000}

\* app.py offers 1.0..5.0
MinLifts == {1000000, 1200000}

InitRecommend ==
    /\ pc = "loaded"
    /\ transactions = <<>>
    /\ min_support = [num |-> 2, den |-> 100]
    /\ max_len = 4
    /\ frequent_itemsets = <<>>
    /\ RuleDefaults
    /\ rules \in RuleTables
    /\ input_items \in RawBaskets
    /\ top_n = 5
    /\ min_confidence = 0
    /\ min_lift = Micro
    /\ rec_df = <<>>
    /\ AppDefaults
    /\ StepDefaults

\* engine.recommend(input_items, top_n, min_confidence, min_lift) is called and returns
Recommend ==
    /\ pc = "loaded"
    /\ \E n \in TopNs, c \in MinConfidences, l \in MinLifts, order \in HashOrders :
          /\ top_n' = n
          /\ min_confidence' = c
          /\ min_lift' = l
          /\ hash_order' = order
          /\ \E outcome \in recommend(rules, input_items, n, c, l, order) :
                /\ rec_df' = outcome.rows
                /\ pc' = IF outcome.raised = "" THEN "recommended" ELSE "raised"
    /\ UNCHANGED <<mineVars, frequent_itemsets, metric, min_threshold, rules_list,
                   rules, input_items, appVars, stepVars>>

NextRecommend == Recommend

SpecRecommend == InitRecommend /\ [][NextRecommend]_vars

(***************************************************************************)
(* The application: the training script saving the rule table, and app     *)
(* sessions loading the engine and asking for recommendations.             *)
(*                                                                         *)
(* The pickle file is [kind, table, frozen, written]: kind is "missing",   *)
(* "unreadable" (open is refused), "other" (a pickle of something that is  *)
(* not a DataFrame) or "pickle"; a pickle of a table holds its first       *)
(* `written` rows and is complete, stop mark included, when written =      *)
(* Len(table) + 1; frozen tells whether its antecedents / consequents were *)
(* pickled as frozensets.  An engine object is [frame, rows, frozen_a,     *)
(* frozen_c].                                                              *)
(***************************************************************************)
OldTable == << Rule({"Bread"}, {"Butter"}, 600000, 900000, 1500000),
               Rule({"Bread"}, {"Milk"}, 400000, 600000, 1100000) >>

NewTable == << Rule({"Bread", "Milk"}, {"Butter"}, 300000, 950000, 1800000),
               Rule({"Bread"}, {"Butter"}, 600000, 900000, 1500000) >>

PickleOf(table, frozen, written) ==
    [kind |-> "pickle", table |-> table, frozen |-> frozen, written |-> written]

Complete(file) == file.kind = "pickle" /\ file.written = Len(file.table) + 1

\* what may lie at RULES_PKL when the processes start
StartFiles ==
    { [kind |-> "missing", table |-> <<>>, frozen |-> TRUE, written |-> 0],
      [kind |-> "unreadable", table |-> <<>>, frozen |-> TRUE, written |-> 0],
      [kind |-> "other", table |-> <<>>, frozen |-> TRUE, written |-> 0],
      PickleOf(OldTable, TRUE, Len(OldTable) + 1),
      PickleOf(OldTable, FALSE, Len(OldTable) + 1),
      PickleOf(OldTable, TRUE, 1) }

\* baskets picked in the multiselect; the app calls recommend only with a non-empty one
AppBaskets == { <<"Bread">>, <<"Milk", "Bread">> }

InitApp ==
    /\ pc = "app"
    /\ transactions = <<>>
    /\ min_support = [num |-> 2, den |-> 100]
    /\ max_len = 4
    /\ frequent_itemsets = <<>>
    /\ RuleDefaults
    /\ RecDefaults
    /\ StepDefaults
    /\ rules_pkl \in StartFiles
    /\ trainer = "idle"
    /\ cache = None
    /\ session = [s \in Sessions |->
                    [pc |-> "start", model_loaded |-> "unset", self |-> None,
                     engine |-> None, error |-> "", called |-> FALSE,
                     seen |-> None, recs |-> <<>>]]

AppFrame == UNCHANGED <<pc, mineVars, frequent_itemsets, ruleVars, recVars, stepVars>>

\* an exception no except clause of app.py catches ends the script run
Fails(s, exception) ==
    session' = [session EXCEPT ![s].pc = "failed", ![s].error = exception]

\* open(RULES_PKL, "wb"): the file is emptied where it lies
TrainOpen ==
    /\ trainer = "idle"
    /\ IF rules_pkl.kind = "unreadable"
       THEN trainer' = "failed" /\ UNCHANGED rules_pkl
       ELSE trainer' = "writing" /\ rules_pkl' = PickleOf(NewTable, TRUE, 0)
    /\ UNCHANGED <<cache, session>>
    /\ AppFrame

\* pickle.dump(rules, f): the next part of the pickle reaches the file
TrainWrite ==
    /\ trainer = "writing"
    /\ ~Complete(rules_pkl)
    /\ rules_pkl' = [rules_pkl EXCEPT !.written = @ + 1]
    /\ UNCHANGED <<trainer, cache, session>>
    /\ AppFrame

\* the with block ends
TrainClose ==
    /\ trainer = "writing"
    /\ Complete(rules_pkl)
    /\ trainer' = "done"
    /\ UNCHANGED <<rules_pkl, cache, session>>
    /\ AppFrame

Constructing(s) == session[s].pc \in {"exists", "open", "convert_a", "convert_c", "items"}

\* engine = load_engine(): the cached engine, or a new RecommendationEngine()
\* built by one session at a time
LoadEngine(s) ==
    /\ session[s].pc = "start"
    /\ IF cache # None
       THEN session' = [session EXCEPT ![s].engine = cache,
                                       ![s].model_loaded = "True",
                                       ![s].pc = "ready"]
       ELSE /\ \A t \in Sessions : ~Constructing(t)
            /\ session' = [session EXCEPT ![s].pc = "exists"]
    /\ UNCHANGED <<rules_pkl, trainer, cache>>
    /\ AppFrame

\* _load: if not RULES_PKL.exists(): raise FileNotFoundError, caught by app.py
CheckExists(s) ==
    /\ session[s].pc = "exists"
    /\ IF rules_pkl.kind = "missing"
       THEN session' = [session EXCEPT ![s].model_loaded = "False", ![s].pc = "ready"]
       ELSE session' = [session EXCEPT ![s].pc = "open"]
    /\ UNCHANGED <<rules_pkl, trainer, cache>>
    /\ AppFrame

\* _load: self.rules = pickle.load(f)
PickleLoad(s) ==
    /\ session[s].pc = "open"
    /\ IF rules_pkl.kind = "unreadable" THEN Fails(s, "PermissionError")
       ELSE IF rules_pkl.kind = "other"
       THEN session' = [session EXCEPT ![s].self = None, ![s].pc = "convert_a"]
       ELSE IF rules_pkl.written = 0 THEN Fails(s, "EOFError")
       ELSE IF ~Complete(rules_pkl) THEN Fails(s, "UnpicklingError")
       ELSE session' = [session EXCEPT
                          ![s].self = [frame |-> TRUE, rows |-> rules_pkl.table,
                                       frozen_a |-> rules_pkl.frozen,
                                       frozen_c |-> rules_pkl.frozen],
                          ![s].pc = "convert_a"]
    /\ UNCHANGED <<rules_pkl, trainer, cache>>
    /\ AppFrame

\* _load: the antecedents column of self.rules is replaced by frozensets
ConvertAntecedents(s) ==
    /\ session[s].pc = "convert_a"
    /\ IF ~session[s].self.frame THEN Fails(s, "AttributeError")
       ELSE session' = [session EXCEPT ![s].self.frozen_a = TRUE, ![s].pc = "convert_c"]
    /\ UNCHANGED <<rules_pkl, trainer, cache>>
    /\ AppFrame

\* _load: the consequents column of self.rules is replaced by frozensets
ConvertConsequents(s) ==
    /\ session[s].pc = "convert_c"
    /\ session' = [session EXCEPT ![s].self.frozen_c = TRUE, ![s].pc = "items"]
    /\ UNCHANGED <<rules_pkl, trainer, cache>>
    /\ AppFrame

\* _load reads all_items and returns; load_engine caches and returns the
\* engine; model_loaded = True
EngineLoaded(s) ==
    /\ session[s].pc = "items"
    /\ cache' = session[s].self
    /\ session' = [session EXCEPT ![s].engine = session[s].self,
                                  ![s].model_loaded = "True",
                                  ![s].pc = "ready"]
    /\ UNCHANGED <<rules_pkl, trainer>>
    /\ AppFrame

\* the Get-Recommendations button: engine.recommend(selected, top_n, min_conf, min_lift)
AppRecommend(s) ==
    /\ session[s].pc = "ready"
    /\ session[s].model_loaded = "True"
    /\ \E selected \in AppBaskets, order \in HashOrders :
          LET engine == session[s].engine
          IN  IF ~(engine.frozen_a /\ engine.frozen_c)
              THEN session' = [session EXCEPT ![s].pc = "failed",
                                              ![s].error = "AttributeError",
                                              ![s].called = TRUE,
                                              ![s].seen = engine]
              ELSE \E outcome \in recommend(engine.rows, selected, 5, 400000, Micro, order) :
                      session' = [session EXCEPT
                                    ![s].called = TRUE,
                                    ![s].seen = engine,
                                    ![s].recs = outcome.rows,
                                    ![s].error = outcome.raised,
                                    ![s].pc = IF outcome.raised = "" THEN "ready"
                                              ELSE "failed"]
    /\ UNCHANGED <<rules_pkl, trainer, cache>>
    /\ AppFrame

NextApp ==
    \/ TrainOpen
    \/ TrainWrite
    \/ TrainClose
    \/ \E s \in Sessions : LoadEngine(s)
    \/ \E s \in Sessions : CheckExists(s)
    \/ \E s \in Sessions : PickleLoad(s)
    \/ \E s \in Sessions : ConvertAntecedents(s)
    \/ \E s \in Sessions : ConvertConsequents(s)
    \/ \E s \in Sessions : EngineLoaded(s)
    \/ \E s \in Sessions : AppRecommend(s)

SpecApp == InitApp /\ [][NextApp]_vars

(***************************************************************************)
(* fpgrowth_mine step by step.  stack holds the active calls, outermost    *)
(* first; a call is [tree, prefix, todo], todo being the header entries    *)
(* its for loop has not visited yet.  itemsets is the list under           *)
(* construction: an itemset is appended before the itemsets of the         *)
(* recursive call it triggers, as append followed by extend leaves them.   *)
(***************************************************************************)
Call(tree, prefix) ==
    [tree |-> tree, prefix |-> prefix, todo |-> SortedHeader(tree.header, tree.freq)]

\* min_support values of the step-by-step runs
StepMinSupports == {[num |-> 2, den |-> 100], [num |-> 1, den |-> 2]}

InitMine ==
    /\ pc = "mining"
    /\ \/ transactions \in TransactionLists(MaxOccur)
       \/ transactions \in ScenarioLists
    /\ min_support \in StepMinSupports
    /\ max_len = 4
    /\ frequent_itemsets = <<>>
    /\ RuleDefaults
    /\ RecDefaults
    /\ AppDefaults
    /\ stack = << Call(FPTree(transactions, MinCount(min_support, Len(transactions))), {}) >>
    /\ itemsets = <<>>
    /\ TreeDefaults

MineFrame == UNCHANGED <<mineVars, frequent_itemsets, ruleVars, recVars, appVars, treeVars>>

Top == stack[Len(stack)]

TopItem == Head(Top.todo).item

TopSupport == ChainSum(Top.tree.nodes, Head(Top.todo).node)

TopCondTransactions == CondTransactions(conditional_pattern_base(Top.tree, TopItem))

TopCondTree == FPTree(TopCondTransactions, MinCount(min_support, Len(transactions)))

TopRecurses ==
    /\ TopSupport >= MinCount(min_support, Len(transactions))
    /\ TopCondTransactions # <<>>
    /\ ~is_empty(TopCondTree)

\* what the innermost call does next: return, call itself, or finish the
\* iteration without a call
TopStep ==
    IF stack = <<>> THEN "none"
    ELSE IF Top.todo = <<>> THEN "return"
    ELSE IF TopRecurses THEN "call" ELSE "item"

\* the loop advances to the next header entry
Advanced == [stack EXCEPT ![Len(stack)].todo = Tail(@)]

\* one iteration of the for loop that makes no recursive call
MineItem ==
    /\ pc = "mining"
    /\ TopStep = "item"
    /\ itemsets' = IF TopSupport < MinCount(min_support, Len(transactions)) THEN itemsets
                   ELSE Append(itemsets, [itemset |-> Top.prefix \cup {TopItem},
                                          count   |-> TopSupport])
    /\ stack' = Advanced
    /\ pc' = pc
    /\ MineFrame

\* one iteration of the for loop up to its call fpgrowth_mine(cond_tree, ...)
MineCall ==
    /\ pc = "mining"
    /\ TopStep = "call"
    /\ itemsets' = Append(itemsets, [itemset |-> Top.prefix \cup {TopItem},
                                     count   |-> TopSupport])
    /\ stack' = Append(Advanced, Call(TopCondTree, Top.prefix \cup {TopItem}))
    /\ pc' = pc
    /\ MineFrame

\* the for loop is over: return itemsets
MineReturn ==
    /\ pc = "mining"
    /\ TopStep = "return"
    /\ stack' = SubSeq(stack, 1, Len(stack) - 1)
    /\ pc' = IF Len(stack) = 1 THEN "mined_raw" ELSE pc
    /\ UNCHANGED itemsets
    /\ MineFrame

NextMine == MineItem \/ MineCall \/ MineReturn

SpecMine == InitMine /\ [][NextMine]_vars

\* A call that can take a step takes it: weak fairness of NextMine, written
\* out as []<>~ENABLED <<NextMine>>_vars \/ []<><<NextMine>>_vars with the
\* value of ENABLED <<NextMine>>_vars, pc = "mining" (MiningCanStep below).
SpecMineFair == SpecMine /\ ([]<>(pc # "mining") \/ []<><<NextMine>>_vars)

(***************************************************************************)
(* FPTree._insert call by call, on any item lists.  inserted is the list   *)
(* of the item lists given so far.                                         *)
(***************************************************************************)
RECURSIVE Occurrences(_)
\* the size of a list of item lists, as MaxOccur counts it
Occurrences(lists) ==
    IF lists = <<>> THEN 0
    ELSE Max(1, Len(Head(lists))) + Occurrences(Tail(lists))

\* the item lists of at most k items, repeats allowed
ItemLists(k) == UNION {BasketsOfLen(len) : len \in 0..k}

InitInsert ==
    /\ pc = "inserting"
    /\ transactions = <<>>
    /\ min_support = [num |-> 2, den |-> 100]
    /\ max_len = 4
    /\ frequent_itemsets = <<>>
    /\ RuleDefaults
    /\ RecDefaults
    /\ AppDefaults
    /\ StepDefaults

TreeFrame ==
    UNCHANGED <<mineVars, frequent_itemsets, ruleVars, recVars, appVars, stack, itemsets>>

\* self._insert(items)
Insert ==
    /\ pc = "inserting"
    /\ \E items \in ItemLists(MaxOccur) :
          /\ Occurrences(inserted) + Max(1, Len(items)) <= MaxOccur
          /\ fp_tree' = FPTree_insert(fp_tree, 0, items)
          /\ inserted' = Append(inserted, items)
    /\ UNCHANGED <<pc, cond_item, cond_patterns>>
    /\ TreeFrame

NextInsert == Insert

SpecInsert == InitInsert /\ [][NextInsert]_vars

(***************************************************************************)
(* FPTree._build transaction by transaction.  inserted[i] is the filtered  *)
(* and sorted item list of transactions[i].                                *)
(***************************************************************************)
InitBuild ==
    /\ pc = "building"
    /\ \/ transactions \in TransactionLists(MaxOccur)
       \/ transactions \in ScenarioLists
    /\ min_support \in StepMinSupports
    /\ max_len = 4
    /\ frequent_itemsets = <<>>
    /\ RuleDefaults
    /\ RecDefaults
    /\ AppDefaults
    /\ stack = <<>>
    /\ itemsets = <<>>
    /\ fp_tree = EmptyTree(FilterFreq(CountFreq(transactions),
                                      MinCount(min_support, Len(transactions))))
    /\ inserted = <<>>
    /\ cond_item = ""
    /\ cond_patterns = <<>>

\* filtered = sorted([item for item in transaction if item in self.freq], key=...)
Filtered(transaction) ==
    SortedByKey(SelectItems(transaction, DOMAIN fp_tree.freq), fp_tree.freq)

\* one iteration of the second loop of _build
BuildInsert ==
    /\ pc = "building"
    /\ Len(inserted) < Len(transactions)
    /\ LET filtered == Filtered(transactions[Len(inserted) + 1])
       IN  /\ fp_tree' = IF filtered # <<>> THEN FPTree_insert(fp_tree, 0, filtered)
                         ELSE fp_tree
           /\ inserted' = Append(inserted, filtered)
    /\ UNCHANGED <<pc, cond_item, cond_patterns>>
    /\ TreeFrame

\* the loop is over: the constructor returns
BuildReturn ==
    /\ pc = "building"
    /\ Len(inserted) = Len(transactions)
    /\ pc' = "built"
    /\ UNCHANGED treeVars
    /\ TreeFrame

\* tree.conditional_pattern_base(item) on the built tree, for an item of the
\* tree or one it has no node for
CondPatternBase ==
    /\ pc = "built"
    /\ \E item \in Items :
          /\ cond_item' = item
          /\ cond_patterns' = conditional_pattern_base(fp_tree, item)
    /\ pc' = "patterned"
    /\ UNCHANGED <<fp_tree, inserted>>
    /\ TreeFrame

NextBuild == BuildInsert \/ BuildReturn \/ CondPatternBase

SpecBuild == InitBuild /\ [][NextBuild]_vars

(***************************************************************************)
(* Properties of fpgrowth (specification Spec).                            *)
(***************************************************************************)
Mined == pc = "mined"

NoRepeats(txns) == \A i \in DOMAIN txns : Cardinality(SeqRange(txns[i])) = Len(txns[i])

DistinctItems(txns) == UNION {SeqRange(txns[i]) : i \in DOMAIN txns}

\* c(S): the number of transactions that contain every item of S
ContainCount(txns, S) == Cardinality({i \in DOMAIN txns : S \subseteq SeqRange(txns[i])})

\* max(1, floor(min_support * n))
CountFloor(minsup, n) == Max(1, (minsup.num * n) \div minsup.den)

\* the positions of the returned list that carry itemset S
EntriesOf(fis, S) == {i \in DOMAIN fis : fis[i].itemsets = S}

\* the (itemset, support) pairs of a returned list
PairsOf(fis) == {fis[i] : i \in DOMAIN fis}

C1Case ==
    /\ Mined
    /\ Len(transactions) > 0
    /\ NoRepeats(transactions)
    /\ max_len >= Cardinality(DistinctItems(transactions))

\* exactly the itemsets with c(S) >= max(1, floor(min_support * n)), each once
ExactlyTheFrequent ==
    \A S \in (SUBSET Items) \ {{}} :
       Cardinality(EntriesOf(frequent_itemsets, S)) =
          IF ContainCount(transactions, S) >= CountFloor(min_support, Len(transactions))
          THEN 1 ELSE 0

\* C1 (as amended): for a non-empty list of n baskets none of which repeats an
\* item and max_len at least the number of distinct items, fpgrowth returns
\* exactly one entry for each non-empty itemset S with
\* c(S) >= max(1, floor(min_support * n)) and no other entry, and the support
\* it reports is c(S)/n rounded to 6 decimal places.
C1_FrequentItemsetsRounded ==
    C1Case =>
      /\ ExactlyTheFrequent
      /\ \A i \in DOMAIN frequent_itemsets :
            /\ frequent_itemsets[i].itemsets # {}
            /\ frequent_itemsets[i].support =
                 RoundHalfEven(
                   ContainCount(transactions, frequent_itemsets[i].itemsets) * Micro,
                   Len(transactions))

\* C1 as stated: the reported support is the fraction c(S)/n itself.
C1_FrequentItemsetsExact ==
    C1Case =>
      /\ ExactlyTheFrequent
      /\ \A i \in DOMAIN frequent_itemsets :
            /\ frequent_itemsets[i].itemsets # {}
            /\ frequent_itemsets[i].support * Len(transactions) =
                 ContainCount(transactions, frequent_itemsets[i].itemsets) * Micro

\* Scenario A mined at 0.3: {Bread} at 15/15, {Bread,Milk,Butter} at 10/15 and
\* {Eggs} at 5/15 (rounded) are among the nine entries returned.
C1_Witness ==
    /\ C1Case
    /\ transactions = ScenarioA
    /\ min_support = [num |-> 3, den |-> 10]
    /\ Len(frequent_itemsets) = 9
    /\ [support |-> 1000000, itemsets |-> {"Bread"}] \in PairsOf(frequent_itemsets)
    /\ [support |-> 666667, itemsets |-> {"Bread", "Milk", "Butter"}]
          \in PairsOf(frequent_itemsets)
    /\ [support |-> 333333, itemsets |-> {"Eggs"}] \in PairsOf(frequent_itemsets)

\* C6: for every pair of itemsets A \subset B both returned by one fpgrowth
\* call, the reported support of A is at least the reported support of B.
C6_SupportMonotone ==
    Mined =>
      \A i, j \in DOMAIN frequent_itemsets :
         (/\ frequent_itemsets[i].itemsets \subseteq frequent_itemsets[j].itemsets
          /\ frequent_itemsets[i].itemsets # frequent_itemsets[j].itemsets)
         => frequent_itemsets[i].support >= frequent_itemsets[j].support

\* the two elements at positions i and j of s exchanged
Swap(s, i, j) == [s EXCEPT ![i] = s[j], ![j] = s[i]]

\* the transaction lists one exchange away: two baskets of the list, or two
\* items of one basket, exchanged
Reorderings(txns) ==
    {Swap(txns, i, j) : i, j \in DOMAIN txns} \cup
    UNION {{[txns EXCEPT ![t] = Swap(txns[t], i, j)] : i, j \in DOMAIN txns[t]}
             : t \in DOMAIN txns}

\* C8: fpgrowth returns the same set of (itemset, support) pairs for every
\* permutation of the transaction list and every reordering of the items
\* inside a basket.  Stated for one exchange; exchanges generate every
\* permutation and the enumerated inputs are closed under them.
C8_OrderIndependent ==
    Mined =>
      \A other \in Reorderings(transactions) :
         PairsOf(fpgrowth(other, min_support, max_len)) = PairsOf(frequent_itemsets)

\* a reordering of a list with tied item counts and a shared prefix changes
\* the tree that is built and leaves the pairs returned unchanged
C8_Witness ==
    /\ Mined
    /\ \E other \in Reorderings(transactions) :
          /\ other # transactions
          /\ FPTree(other, MinCount(min_support, Len(other))).nodes
               # FPTree(transactions, MinCount(min_support, Len(transactions))).nodes
          /\ fpgrowth(other, min_support, max_len) # frequent_itemsets
    /\ \E i, j \in DOMAIN frequent_itemsets :
          Cardinality(frequent_itemsets[i].itemsets) >= 2 /\ i # j

RECURSIVE Dedup(_)
\* a basket with the repeated items removed (first occurrences kept)
Dedup(basket) ==
    IF basket = <<>> THEN <<>>
    ELSE LET init == Dedup(SubSeq(basket, 1, Len(basket) - 1))
             x    == basket[Len(basket)]
         IN  IF x \in SeqRange(init) THEN init ELSE Append(init, x)

DedupAll(txns) == [i \in DOMAIN txns |-> Dedup(txns[i])]

\* C9: fpgrowth returns the same itemsets and supports as it does on the list
\* with the repeated items removed from each basket; no support fraction
\* exceeds 1 and no itemset is returned twice.
C9_DuplicatesCollapse ==
    Mined =>
      /\ PairsOf(frequent_itemsets)
           = PairsOf(fpgrowth(DedupAll(transactions), min_support, max_len))
      /\ \A i \in DOMAIN frequent_itemsets : frequent_itemsets[i].support <= Micro
      /\ \A i, j \in DOMAIN frequent_itemsets :
            frequent_itemsets[i].itemsets = frequent_itemsets[j].itemsets => i = j


(***************************************************************************)
(* Properties of the rule generation.  The expected values are computed    *)
(* with exact arithmetic on natural numbers of any size.                   *)
(***************************************************************************)
Ruled == pc = "ruled"

NoDuplicateItemsets(fis) ==
    \A i, j \in DOMAIN fis : fis[i].itemsets = fis[j].itemsets => i = j

\* the selected metric of A -> C, from the supports in micro-units, is >= thr
MetricMeets(metric_name, sAC, sA, sC, thr) ==
    IF metric_name = "confidence"
    THEN sAC * thr.den >= thr.num * sA
    ELSE BNLeq(BNMul(BNOf(thr.num), BNMul(BNOf(sA), BNOf(sC))),
               BNMul(BNOf(thr.den), BNMul(BNOf(sAC), BNOf(Micro))))

RuleCount(A, C) ==
    Cardinality({i \in DOMAIN rules_list :
                   rules_list[i].antecedents = A /\ rules_list[i].consequents = C})

Qualifies(A, C) ==
    /\ A # {} /\ C # {} /\ A \cap C = {}
    /\ \E i \in DOMAIN frequent_itemsets : frequent_itemsets[i].itemsets = A \cup C
    /\ SupportGet(frequent_itemsets, A) # 0
    /\ SupportGet(frequent_itemsets, C) # 0
    /\ MetricMeets(metric, SupportGet(frequent_itemsets, A \cup C),
                   SupportGet(frequent_itemsets, A),
                   SupportGet(frequent_itemsets, C), min_threshold)

\* C4: association_rules returns the rule A -> C exactly once when A u C is
\* an input itemset of size >= 2, A is a non-empty proper subset of it, C is
\* the rest, both have a non-zero entry in the support lookup and the
\* selected metric before rounding is >= min_threshold; it returns no other
\* rule.
C4_RulesExactlyOnce ==
    Ruled => \A A \in SUBSET Items, C \in SUBSET Items :
                RuleCount(A, C) = IF Qualifies(A, C) THEN 1 ELSE 0

\* the same on inputs that list every itemset once
C4_OnDistinctItemsets ==
    (Ruled /\ NoDuplicateItemsets(frequent_itemsets)) =>
        \A A \in SUBSET Items, C \in SUBSET Items :
            RuleCount(A, C) = IF Qualifies(A, C) THEN 1 ELSE 0

\* C5: every returned rule has a non-empty antecedent and a non-empty
\* consequent, the two are disjoint, and their union is one of the frequent
\* itemsets passed in.
C5_RuleShape ==
    Ruled => \A i \in DOMAIN rules_list :
                LET r == rules_list[i]
                IN  /\ r.antecedents # {}
                    /\ r.consequents # {}
                    /\ r.antecedents \cap r.consequents = {}
                    /\ \E j \in DOMAIN frequent_itemsets :
                          frequent_itemsets[j].itemsets = r.antecedents \cup r.consequents

\* rules with a two-item antecedent and with a two-item consequent are returned
C5_Witness ==
    /\ Ruled
    /\ \E i \in DOMAIN rules_list : Cardinality(rules_list[i].antecedents) = 2
    /\ \E i \in DOMAIN rules_list : Cardinality(rules_list[i].consequents) = 2
    /\ \E i \in DOMAIN rules_list : Cardinality(rules_list[i].antecedents) = 1
                                    /\ Cardinality(rules_list[i].consequents) = 1

\* the stored metrics of rule r against the lookup's supports, exactly
MetricsMatchLookup(r) ==
    LET sAC == BNOf(SupportGet(frequent_itemsets, r.antecedents \cup r.consequents))
        sA  == BNOf(SupportGet(frequent_itemsets, r.antecedents))
        sC  == BNOf(SupportGet(frequent_itemsets, r.consequents))
        one == BNOf(Micro)
        abs == BNOf(IF r.leverage < 0 THEN 0 - r.leverage ELSE r.leverage)
    IN  \* confidence = s(AuC) / s(A)
        /\ r.confidence >= 0
        /\ BNWithinHalf(BNMul(BNOf(r.confidence), sA), BNMul(sAC, one), sA)
        \* lift = s(AuC) / (s(A) * s(C))
        /\ r.lift >= 0
        /\ BNWithinHalf(BNMul(BNOf(r.lift), BNMul(sA, sC)),
                        BNMul(sAC, BNMul(one, one)), BNMul(sA, sC))
        \* leverage = s(AuC) - s(A) * s(C)
        /\ IF r.leverage >= 0
           THEN BNWithinHalf(BNAdd(BNMul(abs, one), BNMul(sA, sC), 0),
                             BNMul(sAC, one), one)
           ELSE BNWithinHalf(BNMul(sA, sC),
                             BNAdd(BNMul(sAC, one), BNMul(abs, one), 0), one)

\* C7: for every returned rule the stored confidence is s(AuC)/s(A), the
\* stored lift is that confidence divided by s(C) and the stored leverage is
\* s(AuC) - s(A)*s(C), each to within half a unit of the sixth decimal, where
\* s is the fractional support found in the lookup.
C7_MetricsFromLookup ==
    Ruled => \A i \in DOMAIN rules_list : MetricsMatchLookup(rules_list[i])

\* the same on inputs that list every itemset once
C7_OnDistinctItemsets ==
    (Ruled /\ NoDuplicateItemsets(frequent_itemsets)) =>
        \A i \in DOMAIN rules_list : MetricsMatchLookup(rules_list[i])


(***************************************************************************)
(* Properties of recommend.  The expected basket is read from a table of   *)
(* the names a caller may type, not from the model's normalisation.        *)
(***************************************************************************)
Recommended == pc = "recommended"

ProductTyped ==
    ("Bread" :> "Bread") @@ (" bread " :> "Bread") @@ ("bread" :> "Bread") @@
    ("Milk" :> "Milk") @@ ("MILK" :> "Milk") @@ ("Milk " :> "Milk") @@
    ("Butter" :> "Butter") @@ ("bUTTER" :> "Butter") @@ ("Eggs" :> "Eggs")

Basket == {ProductTyped[input_items[k]] : k \in DOMAIN input_items}

\* the rules that fire: antecedent within the basket, live filters met
FiringRules ==
    {k \in DOMAIN rules : /\ rules[k].antecedents \subseteq Basket
                          /\ rules[k].confidence >= min_confidence
                          /\ rules[k].lift >= min_lift}

Proposing(p) == {k \in FiringRules : p \in rules[k].consequents}

Candidates == {p \in Items : p \notin Basket /\ Proposing(p) # {}}

Returned == {rec_df[k].product : k \in DOMAIN rec_df}

BestLift(p) == CHOOSE l \in {rules[k].lift : k \in Proposing(p)} :
                  \A k \in Proposing(p) : rules[k].lift <= l

TraceOf(A) == IF A = {"Bread", "Milk"} THEN "Bread, Milk" ELSE CHOOSE x \in A : TRUE

\* C2: the products recommend returns are candidates, i.e. consequent items
\* outside the normalised basket B of a rule whose antecedent is within B
\* and whose confidence and lift meet the live filters; with top_n at least
\* the number of distinct items, they are exactly the candidates.
C2_ReturnedAreTheCandidates ==
    Recommended =>
        /\ Returned \subseteq Candidates
        /\ Returned \cap Basket = {}
        /\ top_n >= Cardinality(Items) => Returned = Candidates

\* the worked example, typed with blanks and in lower case: basket {Bread},
\* Bread -> Butter (0.9, 1.5), Bread -> Milk (0.6, 1.1), min_confidence 0.7
C2_Witness ==
    /\ Recommended
    /\ input_items = <<" bread ">>
    /\ \E k \in DOMAIN rules : rules[k] = Rule({"Bread"}, {"Butter"}, 600000, 900000, 1500000)
    /\ \E k \in DOMAIN rules : rules[k] = Rule({"Bread"}, {"Milk"}, 400000, 600000, 1100000)
    /\ min_confidence = 700000
    /\ top_n = 5
    /\ Returned = {"Butter"}

\* C3: every product has at most one row in the result, and that row has
\* the largest lift of the firing rules whose consequent contains the
\* product, with confidence, support and based_on of a rule of that lift.
C3_BestRulePerProduct ==
    Recommended =>
        /\ \A j, k \in DOMAIN rec_df : rec_df[j].product = rec_df[k].product => j = k
        /\ \A k \in DOMAIN rec_df :
              LET row == rec_df[k]
              IN  \E i \in Proposing(row.product) :
                     /\ \A j \in Proposing(row.product) : rules[j].lift <= rules[i].lift
                     /\ row.lift = rules[i].lift
                     /\ row.confidence = rules[i].confidence
                     /\ row.support = rules[i].support
                     /\ row.based_on = TraceOf(rules[i].antecedents)

\* a returned product that two firing rules of different lift propose
C3_Witness ==
    /\ Recommended
    /\ \E k \in DOMAIN rec_df :
          \E i, j \in Proposing(rec_df[k].product) :
             /\ rules[i].lift < rules[j].lift
             /\ rec_df[k].based_on = "Bread, Milk"

\* C10: for top_n >= 0 the result has min(top_n, D) rows, D the number of
\* distinct candidate products, in non-increasing order of lift, and no
\* candidate left out has a best lift above the smallest lift returned.
C10_TopNAfterDedup ==
    (Recommended /\ top_n >= 0) =>
        /\ Len(rec_df) = Min(top_n, Cardinality(Candidates))
        /\ \A k \in 1..(Len(rec_df) - 1) : rec_df[k].lift >= rec_df[k + 1].lift
        /\ \A p \in Candidates \ Returned :
              rec_df # <<>> => BestLift(p) <= rec_df[Len(rec_df)].lift

\* a truncated result where some product was proposed more than once
C10_Witness ==
    /\ Recommended
    /\ top_n >= 1
    /\ Len(rec_df) = top_n
    /\ Candidates \ Returned # {}
    /\ \E k \in DOMAIN rec_df : Cardinality(Proposing(rec_df[k].product)) >= 2


\* the call of recommend is over, by a return or by an exception
RecommendOver == pc \in {"recommended", "raised"}

\* no rule proposes anything: the table is empty, no antecedent is within
\* the basket, the filters reject every rule that fires, or the basket holds
\* every consequent item of every firing rule
NoRecommendation == Candidates = {}

\* C11: on a no-recommendation outcome (empty rule set, no antecedent within
\* the basket, every firing rule filtered out, or every consequent item
\* already in the basket) recommend does not raise and returns an empty
\* result.
C11_EmptyResultIsNormal ==
    (RecommendOver /\ NoRecommendation) => (pc = "recommended" /\ rec_df = <<>>)

\* rules fire and pass the filters, but the basket already holds all they propose
C11_Witness ==
    /\ pc = "recommended"
    /\ FiringRules # {}
    /\ NoRecommendation
    /\ rec_df = <<>>


(***************************************************************************)
(* Properties of the application.                                          *)
(***************************************************************************)
\* an engine whose rule set is a loaded, converted table
Loaded(engine) ==
    /\ engine.frame /\ engine.frozen_a /\ engine.frozen_c
    /\ engine.rows \in {OldTable, NewTable}

\* C12: every failure to load the rule-set pickle (missing, unreadable, not
\* a valid rule set) surfaces as the model-unavailable condition and not as
\* a generic error: no session ends in an uncaught exception, no engine
\* with an unloaded rule set is handed out, and while model_loaded is not
\* True no engine method is called.
C12_LoadFailureIsModelUnavailable ==
    \A s \in Sessions :
        /\ session[s].error = ""
        /\ session[s].pc = "ready" => session[s].model_loaded \in {"True", "False"}
        /\ session[s].engine # None => Loaded(session[s].engine)
        /\ session[s].model_loaded # "True" => ~session[s].called

\* the part of C12 the code keeps: a missing file gives model_loaded = False,
\* engines are handed out loaded, recommend is called only when model_loaded
C12_MissingFileOnly ==
    \A s \in Sessions :
        /\ session[s].error \in {"", "PermissionError", "EOFError",
                                 "UnpicklingError", "AttributeError"}
        /\ session[s].error # "" => session[s].model_loaded = "unset"
        /\ session[s].engine # None => Loaded(session[s].engine)
        /\ session[s].model_loaded # "True" => ~session[s].called

\* every recommend call ran on one complete, converted table
RecommendSeesCompleteSnapshot ==
    \A s \in Sessions : session[s].called => Loaded(session[s].seen)

\* a step that leaves a complete pickle complete and changes no rule table
\* that an engine object already holds
SwapsOnly ==
    /\ Complete(rules_pkl) => Complete(rules_pkl')
    /\ \A s \in Sessions :
          session[s].self # None =>
              (session'[s].self = session[s].self \/ session'[s].self = None)

\* C13: the active rule set is replaced or installed by an atomic swap and
\* never changed in place, and under every interleaving of the training
\* run, engine loads and recommend calls each recommend call evaluates
\* against one complete, fully converted rule-set snapshot.
C13_AtomicSnapshotSwap == []RecommendSeesCompleteSnapshot /\ [][SwapsOnly]_vars


(***************************************************************************)
(* Properties of the argument checks.                                      *)
(***************************************************************************)
InvalidSupport(minsup) == minsup.num < 0 \/ minsup.num > minsup.den

\* C14: invalid thresholds are rejected before computation starts: a call
\* of fpgrowth with a min_support below 0 or above 1 ends in a
\* configuration error and returns no itemset.
C14_InvalidThresholdRejected ==
    (pc # "start" /\ InvalidSupport(min_support)) =>
        (pc = "configuration_error" /\ frequent_itemsets = <<>>)

\* the same for association_rules and a metric it does not know
InvalidMetricRejected ==
    (pc # "mined" /\ metric \in InvalidMetrics) =>
        (pc = "configuration_error" /\ rules_list = <<>>)


\* the stored conviction of rule r against the lookup's supports: 999 when
\* the confidence is 1 or the quotient reaches 999, else the quotient
\* (1 - s(C)) / (1 - confidence) to within half a unit of the fourth decimal
ConvictionMatchesLookup(r) ==
    LET sAC == SupportGet(frequent_itemsets, r.antecedents \cup r.consequents)
        sA  == SupportGet(frequent_itemsets, r.antecedents)
        sC  == SupportGet(frequent_itemsets, r.consequents)
    IN  /\ r.conviction >= 0
        /\ r.conviction <= ConvictionCap
        /\ IF sAC >= sA \/ sC > Micro THEN r.conviction = ConvictionCap
           ELSE LET n == BNMul(BNMul(BNOf(Micro - sC), BNOf(sA)), BNOf(10000))
                    d == BNMul(BNOf(Micro), BNOf(sA - sAC))
                IN  IF BNLeq(BNMul(BNOf(ConvictionCap), d), n)
                    THEN r.conviction = ConvictionCap
                    ELSE BNWithinHalf(BNMul(BNOf(r.conviction), d), n, d)

C15_OnDistinctItemsets ==
    (Ruled /\ NoDuplicateItemsets(frequent_itemsets)) =>
        \A i \in DOMAIN rules_list : ConvictionMatchesLookup(rules_list[i])


\* C16: the list association_rules returns is in non-increasing order of
\* lift: each rule's lift is at least the lift of the rule after it.
C16_SortedByLift ==
    Ruled => \A i \in 1..(Len(rules_list) - 1) :
                rules_list[i].lift >= rules_list[i + 1].lift

\* a returned list of at least three rules with differing lifts
C16_Witness ==
    /\ Ruled
    /\ Len(rules_list) >= 3
    /\ \E i \in 1..(Len(rules_list) - 1) : rules_list[i].lift > rules_list[i + 1].lift


(***************************************************************************)
(* Properties of the length limit.                                         *)
(***************************************************************************)
\* what fpgrowth returns on the same input when the limit excludes nothing
Unlimited == fpgrowth(transactions, min_support, Cardinality(Items))

\* C17: every itemset fpgrowth returns has at most max_len items, and every
\* itemset of at most max_len items that is returned without the limit is
\* returned with it, with the same support and in the same order; the limit
\* removes nothing else.
C17_LengthLimitOnlyFilters ==
    Mined =>
        /\ \A i \in DOMAIN frequent_itemsets :
              Cardinality(frequent_itemsets[i].itemsets) <= max_len
        /\ frequent_itemsets =
              SelectSeq(Unlimited, LAMBDA e : Cardinality(e.itemsets) <= max_len)

\* the limit cut a three-item itemset and kept the two-item ones
C17_Witness ==
    /\ Mined
    /\ max_len = 2
    /\ \E i \in DOMAIN Unlimited : Cardinality(Unlimited[i].itemsets) = 3
    /\ \E i \in DOMAIN frequent_itemsets : Cardinality(frequent_itemsets[i].itemsets) = 2


(***************************************************************************)
(* Properties of the step-by-step mining.                                  *)
(***************************************************************************)
HeaderItems(tree) == {tree.header[k].item : k \in DOMAIN tree.header}

\* the step-by-step run ends with the list the recursive operator returns
MineStepsAgree ==
    pc = "mined_raw" =>
        itemsets = fpgrowth_mine(FPTree(transactions, MinCount(min_support, Len(transactions))),
                                 MinCount(min_support, Len(transactions)), {})

\* while fpgrowth_mine has not returned, one of its steps can be taken
MiningCanStep == (pc = "mining") <=> (TopStep # "none")

\* a step of the mining is never a stuttering step
MiningStepsChange == [][NextMine => (stack' # stack)]_vars

\* every conditional tree has strictly fewer header items than the tree it
\* was built from
HeaderItemsShrink ==
    \A k \in 1..(Len(stack) - 1) :
        /\ HeaderItems(stack[k + 1].tree) \subseteq HeaderItems(stack[k].tree)
        /\ HeaderItems(stack[k + 1].tree) # HeaderItems(stack[k].tree)

\* the number of nested calls is at most the number of distinct items
DepthBounded == Len(stack) <= Max(1, Cardinality(DistinctItems(transactions)))

\* fpgrowth_mine returns
MineTerminates == <>(pc = "mined_raw")

\* C18: fpgrowth_mine terminates on every finite transaction list and
\* minimum count >= 1: the header items of each conditional tree are a
\* strict subset of those of the tree it was built from, so the recursion
\* depth is at most the number of distinct items.
C18_MineTerminatesByShrinking ==
    MineTerminates /\ [](HeaderItemsShrink /\ DepthBounded)

\* the same on baskets that repeat no item
C18_OnBasketsWithoutRepeats ==
    MineTerminates /\ [](NoRepeats(transactions) => (HeaderItemsShrink /\ DepthBounded))


(***************************************************************************)
(* Lookup misses in association_rules.                                     *)
(***************************************************************************)
\* the itemset list has an entry for S
Listed(S) == \E i \in DOMAIN frequent_itemsets : frequent_itemsets[i].itemsets = S

\* the antecedents the loops try for an itemset
AntecedentsOf(itemset) == (SUBSET itemset) \ {{}, itemset}

\* a rule antecedent -> consequent with this support was returned
ReturnedRule(antecedent, consequent, support) ==
    \E k \in DOMAIN rules_list :
        /\ rules_list[k].antecedents = antecedent
        /\ rules_list[k].consequents = consequent
        /\ rules_list[k].support = support

\* no rule antecedent -> consequent was returned
SkippedRule(antecedent, consequent) ==
    \A k \in DOMAIN rules_list :
        ~(rules_list[k].antecedents = antecedent /\ rules_list[k].consequents = consequent)

\* the metric of the candidate, from the lookup, reaches min_threshold
MeetsThreshold(fs, antecedent) ==
    LET sA == SupportGet(frequent_itemsets, antecedent)
        sC == SupportGet(frequent_itemsets, fs.itemsets \ antecedent)
    IN  RatioGeq(IF metric = "confidence" THEN Confidence(fs.support, sA)
                 ELSE Lift(fs.support, sA, sC), min_threshold)

\* C19: once association_rules has returned (it raises nothing), a candidate
\* whose antecedent or consequent has no entry in the itemset list is
\* skipped, and every candidate whose antecedent and consequent both have an
\* entry and whose metric meets the threshold is returned.
C19_MissSkipsOnlyThatCandidate ==
    Ruled =>
        \A i \in DOMAIN frequent_itemsets :
            \A antecedent \in AntecedentsOf(frequent_itemsets[i].itemsets) :
                LET fs         == frequent_itemsets[i]
                    consequent == fs.itemsets \ antecedent
                IN  IF Listed(antecedent) /\ Listed(consequent)
                    THEN MeetsThreshold(fs, antecedent) =>
                             ReturnedRule(antecedent, consequent, fs.support)
                    ELSE SkippedRule(antecedent, consequent)

\* one itemset with a candidate skipped for a missing entry and another
\* candidate returned
C19_Witness ==
    /\ Ruled
    /\ \E i \in DOMAIN frequent_itemsets :
          \E skipped, kept \in AntecedentsOf(frequent_itemsets[i].itemsets) :
              LET fs == frequent_itemsets[i]
              IN  /\ ~Listed(skipped)
                  /\ SkippedRule(skipped, fs.itemsets \ skipped)
                  /\ Listed(kept) /\ Listed(fs.itemsets \ kept)
                  /\ ReturnedRule(kept, fs.itemsets \ kept, fs.support)


(***************************************************************************)
(* Downward closure of fpgrowth's output.                                  *)
(***************************************************************************)
\* every non-empty subset of a returned itemset is returned, and the lookup
\* association_rules builds gives it a support other than 0
DownwardClosed ==
    \A i \in DOMAIN frequent_itemsets :
        \A S \in (SUBSET frequent_itemsets[i].itemsets) \ {{}} :
            /\ \E j \in DOMAIN frequent_itemsets : frequent_itemsets[j].itemsets = S
            /\ SupportGet(frequent_itemsets, S) # 0

\* C20: for max_len >= 1 and baskets that repeat no item, every non-empty
\* subset of an itemset fpgrowth returns is itself returned, so no candidate
\* of association_rules on that output misses a lookup.
C20_OutputDownwardClosed ==
    (Mined /\ NoRepeats(transactions) /\ max_len >= 1) => DownwardClosed

\* a returned three-item itemset, with all its subsets, from baskets without
\* repeats
C20_Witness ==
    /\ Mined
    /\ NoRepeats(transactions)
    /\ max_len >= 1
    /\ \E i \in DOMAIN frequent_itemsets : Cardinality(frequent_itemsets[i].itemsets) = 3
    /\ DownwardClosed


(***************************************************************************)
(* Properties of the header chains.                                        *)
(***************************************************************************)
RECURSIVE ChainWalk(_, _, _)
\* the nodes met from node n along the link pointers, at most fuel of them
ChainWalk(nodes, n, fuel) ==
    IF n = 0 \/ fuel = 0 THEN <<>>
    ELSE <<n>> \o ChainWalk(nodes, nodes[n].link, fuel - 1)

\* the chain of an item: header[item], then the links
ChainOf(t, item) == ChainWalk(t.nodes, HeaderGet(t, item), Len(t.nodes) + 1)

NodesCarrying(t, item) == {j \in DOMAIN t.nodes : t.nodes[j].item = item}

\* the chain of the item ends in a null link without meeting a node twice,
\* and meets exactly the nodes that carry the item
ChainIsTheItemsNodes(t, item) ==
    LET chain == ChainOf(t, item)
    IN  /\ Len(chain) <= Len(t.nodes)
        /\ chain # <<>> => t.nodes[chain[Len(chain)]].link = 0
        /\ \A a, b \in DOMAIN chain : a # b => chain[a] # chain[b]
        /\ SeqRange(chain) = NodesCarrying(t, item)

\* one header entry per item that has a node, none for the others
HeaderIsTheItems(t) ==
    /\ \A item \in MineItems : HeaderHas(t, item) <=> NodesCarrying(t, item) # {}
    /\ \A a, b \in DOMAIN t.header : a # b => t.header[a].item # t.header[b].item

\* C21: after any sequence of _insert calls the header chain of every item
\* is acyclic, ends in a null link and visits exactly the nodes carrying the
\* item, each once; the header has an entry for an item iff a node carries it.
C21_HeaderChainsWellFormed ==
    /\ \A item \in MineItems : ChainIsTheItemsNodes(fp_tree, item)
    /\ HeaderIsTheItems(fp_tree)

\* after some calls, an item with three nodes on its chain and an item
\* without any node
C21_Witness ==
    /\ pc = "inserting"
    /\ Len(inserted) >= 1
    /\ \E item \in MineItems : Len(ChainOf(fp_tree, item)) >= 3
    /\ \E item \in MineItems : ~HeaderHas(fp_tree, item)


(***************************************************************************)
(* Properties of the node counts.                                          *)
(***************************************************************************)
Built == pc = "built"

\* the build loop ends with the tree the operator FPTree gives
BuildStepsAgree ==
    Built => fp_tree = FPTree(transactions, MinCount(min_support, Len(transactions)))

\* the items on the way from the root to node j, j's own item last
PathTo(nodes, j) == Append(PrefixPath(nodes, nodes[j].parent), nodes[j].item)

IsPrefixOf(p, q) == Len(p) <= Len(q) /\ SubSeq(q, 1, Len(p)) = p

CountIn(seq, x) == Cardinality({k \in DOMAIN seq : seq[k] = x})

\* self.freq: the occurrences of each item that has at least min_count of them
FrequentCount(x) ==
    LET all == FlattenSeq(transactions)
        c   == CountIn(all, x)
    IN  IF c >= MinCount(min_support, Len(transactions)) THEN c ELSE 0

\* s is t without its infrequent items, by descending count, then by name
IsFilteredSorted(s, t) ==
    /\ \A x \in SeqRange(s) \cup SeqRange(t) :
          CountIn(s, x) = IF FrequentCount(x) > 0 THEN CountIn(t, x) ELSE 0
    /\ \A k \in 1..(Len(s) - 1) :
          \/ FrequentCount(s[k]) > FrequentCount(s[k + 1])
          \/ /\ FrequentCount(s[k]) = FrequentCount(s[k + 1])
             /\ (s[k] = s[k + 1] \/ StrLess(s[k], s[k + 1]))

RECURSIVE SumCounts(_, _)
SumCounts(nodes, S) ==
    IF S = {} THEN 0
    ELSE LET k == CHOOSE k \in S : TRUE
         IN  nodes[k].count + SumCounts(nodes, S \ {k})

\* the sum of the counts of the children of node j
ChildrenCounts(nodes, j) ==
    SumCounts(nodes, {k \in DOMAIN nodes : nodes[k].parent = j})

\* the count of node j is the number of transactions whose filtered, sorted
\* item list starts with the path to j
CountIsPrefixCount(j) ==
    fp_tree.nodes[j].count =
        Cardinality({i \in DOMAIN inserted : IsPrefixOf(PathTo(fp_tree.nodes, j), inserted[i])})

\* the loop went through a transaction that is empty after filtering and the
\* tree is as it was
EmptyChangesNothing ==
    (Len(inserted') = Len(inserted) + 1 /\ inserted'[Len(inserted')] = <<>>)
        => fp_tree' = fp_tree

\* C22: after the construction every node's count is the number of
\* transactions whose filtered item list, sorted by descending count and then
\* by name, starts with the root-to-node path; so every count is >= 1 and
\* >= the sum of the children's counts.  A transaction that is empty after
\* filtering leaves the tree as it was.
C22_CountsArePrefixCounts ==
    /\ [](Built =>
            /\ Len(inserted) = Len(transactions)
            /\ \A i \in DOMAIN inserted : IsFilteredSorted(inserted[i], transactions[i])
            /\ \A j \in DOMAIN fp_tree.nodes :
                  /\ CountIsPrefixCount(j)
                  /\ fp_tree.nodes[j].count >= 1
                  /\ fp_tree.nodes[j].count >= ChildrenCounts(fp_tree.nodes, j))
    /\ [][EmptyChangesNothing]_vars

\* a built tree with a shared node, a node that counts more than its
\* children, and a non-empty transaction that filtering emptied
C22_Witness ==
    /\ Built
    /\ \E i \in DOMAIN transactions : transactions[i] # <<>> /\ inserted[i] = <<>>
    /\ \E j \in DOMAIN fp_tree.nodes :
          /\ fp_tree.nodes[j].count >= 2
          /\ fp_tree.nodes[j].count > ChildrenCounts(fp_tree.nodes, j)


(***************************************************************************)
(* Properties of conditional_pattern_base.                                 *)
(***************************************************************************)
Patterned == pc = "patterned"

RECURSIVE ItemsUpFrom(_, _)
\* the items met walking up from node p to the root, the root left out
ItemsUpFrom(nodes, p) ==
    IF p = 0 THEN <<>> ELSE <<nodes[p].item>> \o ItemsUpFrom(nodes, nodes[p].parent)

Reversed(seq) == [k \in DOMAIN seq |-> seq[Len(seq) + 1 - k]]

\* the nodes of the chain of cond_item that are not children of the root
ConditionedNodes ==
    SelectSeq(ChainOf(fp_tree, cond_item), LAMBDA n : fp_tree.nodes[n].parent # 0)

\* C23: conditional_pattern_base(item) returns one pair per node of the
\* item's header chain that has an ancestor other than the root, in chain
\* order: the ancestors' items from the root down to the node's parent, and
\* the node's count.  Children of the root give no pair; an item without a
\* header entry gives the empty list.
C23_PatternBaseOfChain ==
    Patterned =>
        /\ Len(cond_patterns) = Len(ConditionedNodes)
        /\ \A k \in DOMAIN cond_patterns :
              LET n == ConditionedNodes[k]
              IN  /\ cond_patterns[k].pattern =
                        Reversed(ItemsUpFrom(fp_tree.nodes, fp_tree.nodes[n].parent))
                  /\ cond_patterns[k].pattern # <<>>
                  /\ cond_patterns[k].count = fp_tree.nodes[n].count
        /\ ~HeaderHas(fp_tree, cond_item) => cond_patterns = <<>>

\* a chain with a child of the root, which gives no pair, and a node two
\* levels further down, which gives a pair with two ancestors
C23_Witness ==
    /\ Patterned
    /\ \E k \in DOMAIN ChainOf(fp_tree, cond_item) :
          fp_tree.nodes[ChainOf(fp_tree, cond_item)[k]].parent = 0
    /\ \E k \in DOMAIN cond_patterns : Len(cond_patterns[k].pattern) >= 2
    /\ Len(cond_patterns) < Len(ChainOf(fp_tree, cond_item))

\* the item has no header entry and the list is empty
C23_WitnessAbsent ==
    /\ Patterned
    /\ ~HeaderHas(fp_tree, cond_item)
    /\ fp_tree.nodes # <<>>
    /\ cond_patterns = <<>>


(***************************************************************************)
(* Header supports in the calls of fpgrowth_mine.                          *)
(***************************************************************************)
\* the sum of the node counts along the header chain of the item
ChainCount(t, item) == SumCounts(t.nodes, SeqRange(ChainOf(t, item)))

\* every header item of the tree has its recorded frequency on its chain,
\* and that is at least the minimum count
HeaderSupportsAreFreq(t) ==
    \A h \in DOMAIN t.header :
        LET item == t.header[h].item
        IN  /\ item \in DOMAIN t.freq
            /\ ChainCount(t, item) = t.freq[item]
            /\ t.freq[item] >= MinCount(min_support, Len(transactions))

\* an iteration of the for loop appends the itemset of its header item
IterationEmits ==
    (TopStep \in {"item", "call"} /\ stack' # stack) =>
        /\ Len(itemsets') = Len(itemsets) + 1
        /\ itemsets'[Len(itemsets')] =
              [itemset |-> Top.prefix \cup {TopItem},
               count   |-> Top.tree.freq[TopItem]]

\* C24: in every call of fpgrowth_mine, top level or recursive, the counts
\* along the header chain of every header item add up to tree.freq[item],
\* which is at least the minimum count; so the branch that skips an item is
\* never taken and every header item of every tree is emitted.
C24_HeaderItemsAlwaysEmitted ==
    /\ [](\A k \in DOMAIN stack : HeaderSupportsAreFreq(stack[k].tree))
    /\ [][IterationEmits]_vars

\* a recursive call on a conditional tree in which an item has two nodes,
\* after some itemsets were emitted
C24_Witness ==
    /\ pc = "mining"
    /\ Len(stack) >= 2
    /\ itemsets # <<>>
    /\ \E h \in DOMAIN Top.tree.header :
          Len(ChainOf(Top.tree, Top.tree.header[h].item)) >= 2

====
